---- MODULE Spec2Model ----
(***************************************************************************)
(* A model of wg-ddns (src/main.go): the WireGuard configuration parser,   *)
(* the discovery of active wg-quick units, the resolve-compare-restart     *)
(* pass of the monitor, the scheduler loop and the HTTP restart handler.   *)
(*                                                                         *)
(* Go strings are modelled as sequences of one-character strings, so that  *)
(* the regular expressions, net.SplitHostPort and the prefix and suffix    *)
(* operations of the code are computed character by character.             *)
(***************************************************************************)
EXTENDS Integers, Sequences, FiniteSets, Bags, TLC

(***************************************************************************)
(* String literals of the program and of the inputs explored.              *)
(***************************************************************************)
(* "wg0" *)
wg0 ==
    <<"w","g","0">>

(* "wg1" *)
wg1 ==
    <<"w","g","1">>

(* "wg2" *)
wg2 ==
    <<"w","g","2">>

(* "wg-quick@" *)
ServicePrefix ==
    <<"w","g","-","q","u","i","c","k","@">>

(* ".service" *)
ServiceSuffix ==
    <<".","s","e","r","v","i","c","e">>

(* "Endpoint" *)
EndpointKey ==
    <<"E","n","d","p","o","i","n","t">>

(* "wg-quick@wg0.service" *)
UnitWg0 ==
    <<"w","g","-","q","u","i","c","k","@","w","g","0",".","s","e","r","v","i","c","e">>

(* "wg-quick@wg1.service" *)
UnitWg1 ==
    <<"w","g","-","q","u","i","c","k","@","w","g","1",".","s","e","r","v","i","c","e">>

(* "wg-quick@wg2.service" *)
UnitWg2 ==
    <<"w","g","-","q","u","i","c","k","@","w","g","2",".","s","e","r","v","i","c","e">>

(* "sshd.service" *)
UnitSshd ==
    <<"s","s","h","d",".","s","e","r","v","i","c","e">>

(* "wg-quick@.service" *)
UnitEmpty ==
    <<"w","g","-","q","u","i","c","k","@",".","s","e","r","v","i","c","e">>

(* "wg-quick@wg0" *)
UnitNoSuffix ==
    <<"w","g","-","q","u","i","c","k","@","w","g","0">>

(* "wg-quick@wg-quick@wg0.service.service" *)
UnitNested ==
    <<"w","g","-","q","u","i","c","k","@","w","g","-","q","u","i","c","k","@","w","g","0",".","s","e","r","v","i","c","e",".","s","e","r","v","i","c","e">>

(* "vpn.example.com" *)
HostVpn ==
    <<"v","p","n",".","e","x","a","m","p","l","e",".","c","o","m">>

(* "ddns.example.org" *)
HostDdns ==
    <<"d","d","n","s",".","e","x","a","m","p","l","e",".","o","r","g">>

(* "1.2.3.4.example.com" *)
HostQuadPrefix ==
    <<"1",".","2",".","3",".","4",".","e","x","a","m","p","l","e",".","c","o","m">>

(* "10.0.0.1" *)
HostIPv4 ==
    <<"1","0",".","0",".","0",".","1">>

(* "::1" *)
HostIPv6 ==
    <<":",":","1">>

(* "[Peer]" *)
LinePeer ==
    <<"[","P","e","e","r","]">>

(* "Endpoint = vpn.example.com:51820" *)
LineHost ==
    <<"E","n","d","p","o","i","n","t"," ","="," ","v","p","n",".","e","x","a","m","p","l","e",".","c","o","m",":","5","1","8","2","0">>

(* "\tEndpoint=ddns.example.org:51820 " *)
LineHost2 ==
    <<"\t","E","n","d","p","o","i","n","t","=","d","d","n","s",".","e","x","a","m","p","l","e",".","o","r","g",":","5","1","8","2","0"," ">>

(* "Endpoint = 10.0.0.1:51820" *)
LineIPv4 ==
    <<"E","n","d","p","o","i","n","t"," ","="," ","1","0",".","0",".","0",".","1",":","5","1","8","2","0">>

(* "Endpoint = 1.2.3.4.example.com:51820" *)
LineQuadPrefix ==
    <<"E","n","d","p","o","i","n","t"," ","="," ","1",".","2",".","3",".","4",".","e","x","a","m","p","l","e",".","c","o","m",":","5","1","8","2","0">>

(* "Endpoint = :51820" *)
LineEmptyHost ==
    <<"E","n","d","p","o","i","n","t"," ","="," ",":","5","1","8","2","0">>

(* "Endpoint = [::1]:51820" *)
LineIPv6 ==
    <<"E","n","d","p","o","i","n","t"," ","="," ","[",":",":","1","]",":","5","1","8","2","0">>

(* "Endpoint = vpn.example.com" *)
LineNoPort ==
    <<"E","n","d","p","o","i","n","t"," ","="," ","v","p","n",".","e","x","a","m","p","l","e",".","c","o","m">>

(* "Endpoint = fe80::1:51820" *)
LineColons ==
    <<"E","n","d","p","o","i","n","t"," ","="," ","f","e","8","0",":",":","1",":","5","1","8","2","0">>

(* "#Endpoint = old.example.com:51820" *)
LineComment ==
    <<"#","E","n","d","p","o","i","n","t"," ","="," ","o","l","d",".","e","x","a","m","p","l","e",".","c","o","m",":","5","1","8","2","0">>

(***************************************************************************)
(* String helpers: package strings and the two regular expressions.        *)
(***************************************************************************)
IsSpace(c) == c \in {" ", "\t"}

IsDigit(c) == c \in {"0", "1", "2", "3", "4", "5", "6", "7", "8", "9"}

RECURSIVE TrimLeft(_)
TrimLeft(s) ==
    IF s # <<>> /\ IsSpace(Head(s)) THEN TrimLeft(Tail(s)) ELSE s

RECURSIVE TrimRight(_)
TrimRight(s) ==
    IF s # <<>> /\ IsSpace(s[Len(s)]) THEN TrimRight(SubSeq(s, 1, Len(s) - 1)) ELSE s

\* strings.TrimSpace
TrimSpace(s) == TrimRight(TrimLeft(s))

\* strings.HasPrefix, strings.HasSuffix, strings.TrimPrefix, strings.TrimSuffix
HasPrefix(s, p) == Len(s) >= Len(p) /\ SubSeq(s, 1, Len(p)) = p

HasSuffix(s, p) == Len(s) >= Len(p) /\ SubSeq(s, Len(s) - Len(p) + 1, Len(s)) = p

TrimPrefix(s, p) == IF HasPrefix(s, p) THEN SubSeq(s, Len(p) + 1, Len(s)) ELSE s

TrimSuffix(s, p) == IF HasSuffix(s, p) THEN SubSeq(s, 1, Len(s) - Len(p)) ELSE s

\* Index of the first / last occurrence of character c in s, 0 when absent.
RECURSIVE IndexFrom(_, _, _)
IndexFrom(s, c, i) ==
    IF i > Len(s) THEN 0 ELSE IF s[i] = c THEN i ELSE IndexFrom(s, c, i + 1)

IndexByte(s, c) == IndexFrom(s, c, 1)

RECURSIVE LastFrom(_, _, _)
LastFrom(s, c, i) ==
    IF i < 1 THEN 0 ELSE IF s[i] = c THEN i ELSE LastFrom(s, c, i - 1)

LastIndexByte(s, c) == LastFrom(s, c, Len(s))

\* endpointRegex = ^\s*Endpoint\s*=\s*(.+)$ : FindStringSubmatch(line).
\* The result is <<whole match, group 1>>, or the empty sequence (nil).
\* The greedy \s* before the group gives back one character only when
\* nothing but white space follows the "=".
endpointRegex(line) ==
    LET s0 == TrimLeft(line)
    IN  IF ~HasPrefix(s0, EndpointKey) THEN <<>>
        ELSE LET s1 == TrimLeft(TrimPrefix(s0, EndpointKey))
             IN  IF s1 = <<>> \/ Head(s1) # "=" THEN <<>>
                 ELSE LET rest == Tail(s1)
                          s2 == TrimLeft(rest)
                      IN  IF s2 # <<>> THEN <<line, s2>>
                          ELSE IF rest # <<>> THEN <<line, <<rest[Len(rest)]>> >>
                          ELSE <<>>

RECURSIVE DropDigits(_)
DropDigits(s) ==
    IF s # <<>> /\ IsDigit(Head(s)) THEN DropDigits(Tail(s)) ELSE s

\* n groups \d+ separated by "." at the start of s (the pattern has no "$").
RECURSIVE DigitGroups(_, _)
DigitGroups(s, n) ==
    IF s = <<>> \/ ~IsDigit(Head(s)) THEN FALSE
    ELSE LET r == DropDigits(s)
         IN  IF n = 1 THEN TRUE
             ELSE r # <<>> /\ Head(r) = "." /\ DigitGroups(Tail(r), n - 1)

\* Variant: a pattern with one group too many, which no dotted quad matches.
ipRegexFiveGroups(host) == DigitGroups(host, 5)

\* ipRegex = ^\d+\.\d+\.\d+\.\d+ : MatchString(host).
ipRegex(host) == DigitGroups(host, 4)

\* net.SplitHostPort(hostport): [err, host, port].
SplitErr == [err |-> TRUE, host |-> <<>>, port |-> <<>>]

SplitHostPort(hostport) ==
    LET n == Len(hostport)
        i == LastIndexByte(hostport, ":")
    IN  IF i = 0 THEN SplitErr                         \* missing port
        ELSE IF hostport[1] = "["
        THEN LET end == IndexByte(hostport, "]")
             IN  IF end = 0 THEN SplitErr              \* missing ']'
                 ELSE IF end = n THEN SplitErr         \* missing port
                 ELSE IF end + 1 # i THEN SplitErr     \* too many colons / missing port
                 ELSE IF IndexByte(SubSeq(hostport, 2, n), "[") # 0 THEN SplitErr
                 ELSE IF IndexByte(SubSeq(hostport, end + 1, n), "]") # 0 THEN SplitErr
                 ELSE [err |-> FALSE, host |-> SubSeq(hostport, 2, end - 1),
                       port |-> SubSeq(hostport, i + 1, n)]
        ELSE LET host == SubSeq(hostport, 1, i - 1)
             IN  IF IndexByte(host, ":") # 0 THEN SplitErr   \* too many colons
                 ELSE IF IndexByte(hostport, "[") # 0 THEN SplitErr
                 ELSE IF IndexByte(hostport, "]") # 0 THEN SplitErr
                 ELSE [err |-> FALSE, host |-> host, port |-> SubSeq(hostport, i + 1, n)]

(***************************************************************************)
(* Bounds of the model.                                                    *)
(***************************************************************************)
\* Longest configuration text explored by SpecParser, in lines.
MaxLines == 2

\* Number of API requests in one behaviour (in flight or answered).
MaxReq == 2

\* Number of list requests among them.
MaxList == 1

\* Longest unit list explored by SpecDiscover.
MaxUnits == 1

(***************************************************************************)
(* Values.                                                                 *)
(***************************************************************************)
\* The unset net.IP (nil) and the addresses DNS may answer.
NoIP == "nil"

Addrs == {"1.2.3.4", "5.6.7.8"}

\* net.IP.Equal: nil equals only nil, an address equals only itself.
IPEqual(a, b) == a = b

\* net.ResolveIPAddr("ip4", host): the outcomes the resolver may produce.
\* An empty host is answered without a lookup, with no error and no address.
ResolveIPAddr(host) ==
    IF host = <<>>
    THEN {[err |-> FALSE, IP |-> NoIP]}
    ELSE {[err |-> TRUE, IP |-> NoIP]} \cup {[err |-> FALSE, IP |-> a] : a \in Addrs}

\* A configuration file: missing or unreadable (exists = FALSE), or its lines
\* and the number of lines after which the scanner reports a read error
\* (NoErr when none).
NoErr == -1

File(lines, failAfter) == [exists |-> TRUE, lines |-> lines, failAfter |-> failAfter]

MissingFile == [exists |-> FALSE, lines |-> <<>>, failAfter |-> NoErr]

\* fmt.Sprintf("wg-quick@%s.service", interfaceName)
ServiceName(interfaceName) == ServicePrefix \o interfaceName \o ServiceSuffix

\* The terminal job states systemd may deliver on the completion channel.
JobResults == {"done", "failed", "canceled"}

VARIABLES
    singleInterface,   \* m.singleInterface, <<>> when not pinned
    apiEnabled,        \* m.apiEnabled
    units,             \* the units systemd lists: <<[Name, ActiveState]>>
    files,             \* /etc/wireguard/<interface>.conf for each interface
    mainPc,            \* position of main: start, connected, discover, scan, running, exited
    exitCode,          \* exit status once mainPc = "exited"
    conn,              \* m.conn: nil, open, closed
    unitIdx,           \* index of the unit the discovery loop is at
    scanIface,         \* interfaceName of the parseWireGuardConfig call in progress
    scanIdx,           \* number of lines the scanner has delivered
    parsed,            \* history: the parseWireGuardConfig calls that returned, with their error
    configs,           \* m.configs, the registry
    ctxDone,           \* the context has been cancelled
    tickerC,           \* the number of ticks buffered in ticker.C
    ticksDropped,      \* history: a tick was dropped since the last pass started
    detPc,             \* position of run/checkEndpoints: idle, select, resolve, restart, wait, returned
    detIdx,            \* the index i of the loop in checkEndpoints
    cur,               \* history of the pass in progress or last completed
    prev,              \* history of the pass before it
    httpServer,        \* m.httpServer: nil, listening, closed
    reqs,              \* the bag of API requests, in flight or answered
    lists,             \* the bag of GET /interfaces requests, in flight or answered
    restartLog         \* history: the restart requests made to systemd

vars == <<singleInterface, apiEnabled, units, files, mainPc, exitCode, conn, unitIdx,
          scanIface, scanIdx, parsed, configs, ctxDone, tickerC, ticksDropped, detPc, detIdx,
          cur, prev, httpServer, reqs, lists, restartLog>>

inputVars == <<singleInterface, apiEnabled, units, files>>

startupVars == <<mainPc, exitCode, conn, unitIdx, scanIface, scanIdx, parsed>>

runVars == <<ctxDone, tickerC, ticksDropped, detPc, detIdx, cur, prev>>

apiVars == <<httpServer, reqs, lists>>

(***************************************************************************)
(* Startup: main, initialize, discoverWireGuardConfigs,                    *)
(* parseSingleInterface and parseWireGuardConfig.                          *)
(***************************************************************************)
NoPass == [started |-> FALSE, before |-> <<>>, res |-> <<>>, cnt |-> <<>>, out |-> <<>>]

\* Of the pass before, the history keeps the resolutions and the restart outcomes.
NoPrev == [started |-> FALSE, res |-> <<>>, out |-> <<>>]

\* os.Exit(1) in main: the deferred cleanup does not run.
Exit1 ==
    /\ mainPc' = "exited"
    /\ exitCode' = 1

\* main after initialize returned nil: the context, the signal handler, the
\* HTTP goroutine and run's ticker are set up.
StartRun ==
    /\ mainPc' = "running"
    /\ detPc' = "select"

\* dbus.NewWithContext in initialize.
Connect ==
    /\ mainPc = "start"
    /\ \/ /\ conn' = "open"
          /\ mainPc' = "connected"
          /\ UNCHANGED exitCode
       \/ /\ Exit1
          /\ UNCHANGED conn
    /\ UNCHANGED <<inputVars, unitIdx, scanIface, scanIdx, parsed, configs, runVars,
                   apiVars, restartLog>>

\* os.Open at the head of parseWireGuardConfig.
OpenFails(interfaceName) ==
    interfaceName \notin DOMAIN files \/ ~files[interfaceName].exists

\* Variant: the discovery loop returns the error instead of continuing.
ParseReturnedAbort(err) ==
    IF err # "none"
    THEN Exit1 /\ UNCHANGED <<unitIdx, detPc>>
    ELSE IF singleInterface # <<>>
    THEN StartRun /\ UNCHANGED <<unitIdx, exitCode>>
    ELSE /\ mainPc' = "discover"
         /\ unitIdx' = unitIdx + 1
         /\ UNCHANGED <<exitCode, detPc>>

\* Variant: parseSingleInterface logs the error and startup goes on.
ParseReturnedSkip(err) ==
    IF singleInterface # <<>>
    THEN StartRun /\ UNCHANGED <<unitIdx, exitCode>>
    ELSE /\ mainPc' = "discover"
         /\ unitIdx' = unitIdx + 1
         /\ UNCHANGED <<exitCode, detPc>>

\* What the caller does with the error parseWireGuardConfig returned ("none"
\* for nil): parseSingleInterface hands an error to main, which exits; the
\* discovery loop logs it and goes on to the next unit.
ParseReturned(err) ==
    IF singleInterface # <<>>
    THEN IF err # "none"
         THEN Exit1 /\ UNCHANGED <<unitIdx, detPc>>
         ELSE StartRun /\ UNCHANGED <<unitIdx, exitCode>>
    ELSE /\ mainPc' = "discover"
         /\ unitIdx' = unitIdx + 1
         /\ UNCHANGED <<exitCode, detPc>>

\* parseSingleInterface up to the scanner loop of parseWireGuardConfig.
ParseSingleInterface ==
    /\ mainPc = "connected"
    /\ singleInterface # <<>>
    /\ IF OpenFails(singleInterface)
       THEN /\ parsed' = Append(parsed, [iface |-> singleInterface, err |-> "open"])
            /\ ParseReturned("open")
            /\ UNCHANGED <<scanIface, scanIdx>>
       ELSE /\ mainPc' = "scan"
            /\ scanIface' = singleInterface
            /\ scanIdx' = 0
            /\ UNCHANGED <<parsed, exitCode, unitIdx, detPc>>
    /\ UNCHANGED <<inputVars, conn, configs, ctxDone, tickerC, ticksDropped, detIdx, cur, prev,
                   apiVars, restartLog>>

\* m.conn.ListUnitsContext in discoverWireGuardConfigs.
ListUnits ==
    /\ mainPc = "connected"
    /\ singleInterface = <<>>
    /\ \/ /\ mainPc' = "discover"
          /\ unitIdx' = 1
          /\ UNCHANGED exitCode
       \/ /\ Exit1
          /\ UNCHANGED unitIdx
    /\ UNCHANGED <<inputVars, conn, scanIface, scanIdx, parsed, configs, runVars,
                   apiVars, restartLog>>

\* Variant: the filter does not look at the state of the unit.
IsWgUnitAnyState(unit) ==
    /\ HasPrefix(unit.Name, ServicePrefix)
    /\ HasSuffix(unit.Name, ServiceSuffix)

\* The filter of the discovery loop.
IsActiveWgUnit(unit) ==
    /\ HasPrefix(unit.Name, ServicePrefix)
    /\ HasSuffix(unit.Name, ServiceSuffix)
    /\ unit.ActiveState = "active"

\* Variant: the suffix is left on the interface name.
UnitInterfaceKeepSuffix(unit) == TrimPrefix(unit.Name, ServicePrefix)

\* interfaceName as discoverWireGuardConfigs recovers it from the unit name.
UnitInterface(unit) == TrimSuffix(TrimPrefix(unit.Name, ServicePrefix), ServiceSuffix)

\* One iteration of the loop over units, up to the scanner loop of the parser.
DiscoverUnit ==
    /\ mainPc = "discover"
    /\ unitIdx <= Len(units)
    /\ LET unit == units[unitIdx]
           interfaceName == UnitInterface(unit)
       IN  IF ~IsActiveWgUnit(unit)
           THEN /\ unitIdx' = unitIdx + 1
                /\ UNCHANGED <<mainPc, exitCode, detPc, scanIface, scanIdx, parsed>>
           ELSE IF OpenFails(interfaceName)
           THEN /\ parsed' = Append(parsed, [iface |-> interfaceName, err |-> "open"])
                /\ ParseReturned("open")
                /\ UNCHANGED <<scanIface, scanIdx>>
           ELSE /\ mainPc' = "scan"
                /\ scanIface' = interfaceName
                /\ scanIdx' = 0
                /\ UNCHANGED <<unitIdx, exitCode, detPc, parsed>>
    /\ UNCHANGED <<inputVars, conn, configs, ctxDone, tickerC, ticksDropped, detIdx, cur, prev,
                   apiVars, restartLog>>

\* The loop over units is over: discoverWireGuardConfigs returns nil.
DiscoverDone ==
    /\ mainPc = "discover"
    /\ unitIdx > Len(units)
    /\ StartRun
    /\ UNCHANGED <<inputVars, exitCode, conn, unitIdx, scanIface, scanIdx, parsed, configs,
                   ctxDone, tickerC, ticksDropped, detIdx, cur, prev, apiVars, restartLog>>

\* The scanner has another line to deliver.
ScanHasLine ==
    /\ scanIdx < Len(files[scanIface].lines)
    /\ files[scanIface].failAfter # scanIdx

\* The entries one line adds to the registry, given the resolver's answer.
ParseLine(interfaceName, text, answer) ==
    LET line == TrimSpace(text)
        matches == endpointRegex(line)
    IN  IF Len(matches) # 2 THEN <<>>
        ELSE LET endpoint == TrimSpace(matches[2])
                 hp == SplitHostPort(endpoint)
             IN  IF hp.err THEN <<>>
                 ELSE IF ipRegex(hp.host) THEN <<>>
                 ELSE << [Interface |-> interfaceName,
                          Endpoint  |-> endpoint,
                          Hostname  |-> hp.host,
                          LastIP    |-> IF answer.err THEN NoIP ELSE answer.IP] >>

\* Variant: the entry of a line replaces the registry instead of extending it.
ReplaceConfig(registry, entries) == IF entries = <<>> THEN registry ELSE entries

\* Variant: the entry of a line is appended twice.
AppendConfigTwice(registry, entries) == registry \o entries \o entries

\* m.configs = append(m.configs, config), for the entries of one line.
AppendConfig(registry, entries) == registry \o entries

\* The host the line makes the parser resolve, when it adds an entry.
EndpointOf(text) == ParseLine(<<>>, text, [err |-> TRUE, IP |-> NoIP])

\* One iteration of the scanner loop of parseWireGuardConfig.
ScanLine ==
    /\ mainPc = "scan"
    /\ ScanHasLine
    /\ LET text == files[scanIface].lines[scanIdx + 1]
           hosts == EndpointOf(text)
       IN  IF hosts = <<>>
           THEN UNCHANGED configs
           ELSE \E answer \in ResolveIPAddr(hosts[1].Hostname) :
                    configs' = AppendConfig(configs, ParseLine(scanIface, text, answer))
    /\ scanIdx' = scanIdx + 1
    /\ UNCHANGED <<inputVars, mainPc, exitCode, conn, unitIdx, scanIface, parsed, runVars,
                   apiVars, restartLog>>

\* The scanner stops: parseWireGuardConfig returns scanner.Err() to its caller.
ScanEnd ==
    /\ mainPc = "scan"
    /\ ~ScanHasLine
    /\ LET err == IF files[scanIface].failAfter = scanIdx THEN "scan" ELSE "none"
       IN  /\ parsed' = Append(parsed, [iface |-> scanIface, err |-> err])
           /\ ParseReturned(err)
    /\ UNCHANGED <<inputVars, conn, scanIface, scanIdx, configs, ctxDone, tickerC, ticksDropped,
                   detIdx, cur, prev, apiVars, restartLog>>

(***************************************************************************)
(* restartWireGuardService: the request to systemd and the wait for the    *)
(* job's terminal state.                                                   *)
(***************************************************************************)
\* An error value as fmt.Errorf builds it: the format and its arguments.
Errorf(format, args) == [fmt |-> format, args |-> args]

NilErr == [fmt |-> "<nil>", args |-> <<>>]

\* RestartUnitContext returned an error: the request was rejected.
RestartRejected(interfaceName) ==
    Errorf("failed to restart service %s: %w", <<ServiceName(interfaceName), "dbus">>)

\* Variant: only the state "failed" is taken for a failure.
RestartJobResultOnlyFailed(job) ==
    IF job = "failed" THEN Errorf("service restart job failed: %s", <<job>>) ELSE NilErr

\* The value restartWireGuardService returns once the job reported its state.
RestartJobResult(job) ==
    IF job # "done" THEN Errorf("service restart job failed: %s", <<job>>) ELSE NilErr

\* The request as systemd receives it.
RestartRequest(interfaceName, caller) == [unit |-> ServiceName(interfaceName), by |-> caller]

(***************************************************************************)
(* The scheduler (run) and the pass over the registry (checkEndpoints).    *)
(***************************************************************************)
\* The capacity of the channel time.NewTicker makes.
TickerCap == 1

\* Variant: the channel has room for a second tick.
TickerSendQueued(buffered) == IF buffered < TickerCap + 1 THEN buffered + 1 ELSE buffered

\* The ticker's send on ticker.C does not block: a tick that finds the
\* channel full is dropped.
TickerSend(buffered) == IF buffered < TickerCap THEN buffered + 1 ELSE buffered

\* The interval elapses; until run returns and stops the ticker.
Tick ==
    /\ mainPc = "running"
    /\ detPc # "returned"
    /\ tickerC' = TickerSend(tickerC)
    /\ ticksDropped' = (ticksDropped \/ tickerC' = tickerC)
    /\ UNCHANGED <<inputVars, startupVars, configs, ctxDone, detPc, detIdx, cur, prev,
                   apiVars, restartLog>>

\* SIGINT or SIGTERM arrives: the signal goroutine calls cancel().
Signal ==
    /\ mainPc = "running"
    /\ ~ctxDone
    /\ ctxDone' = TRUE
    /\ UNCHANGED <<inputVars, startupVars, configs, tickerC, ticksDropped, detPc, detIdx, cur, prev,
                   apiVars, restartLog>>

\* The history of a pass that starts on the registry as it is.
NewPass ==
    [started |-> TRUE,
     before  |-> [i \in 1..Len(configs) |-> configs[i].LastIP],
     res     |-> [i \in 1..Len(configs) |-> "pending"],
     cnt     |-> [i \in 1..Len(configs) |-> 0],
     out     |-> [i \in 1..Len(configs) |-> "none"]]

\* select takes the tick: checkEndpoints starts.
RunTick ==
    /\ mainPc = "running"
    /\ detPc = "select"
    /\ tickerC > 0
    /\ tickerC' = tickerC - 1
    /\ ticksDropped' = FALSE
    /\ prev' = [started |-> cur.started, res |-> cur.res, out |-> cur.out]
    /\ cur' = NewPass
    /\ IF configs = <<>>
       THEN UNCHANGED <<detPc, detIdx>>
       ELSE detPc' = "resolve" /\ detIdx' = 1
    /\ UNCHANGED <<inputVars, startupVars, configs, ctxDone, apiVars, restartLog>>

\* Variant: the case of ctx.Done() leaves the select, not the loop.
RunDoneBreak ==
    /\ mainPc = "running"
    /\ detPc = "select"
    /\ ctxDone
    /\ UNCHANGED vars

\* select takes ctx.Done(): run returns.
RunDone ==
    /\ mainPc = "running"
    /\ detPc = "select"
    /\ ctxDone
    /\ detPc' = "returned"
    /\ UNCHANGED <<inputVars, startupVars, configs, ctxDone, tickerC, ticksDropped, detIdx, cur, prev,
                   apiVars, restartLog>>

\* Variant: checkEndpoints returns after the entry.
NextEndpointReturn == detPc' = "select" /\ detIdx' = 0

\* Variant: the loop does not advance and takes the same entry again.
NextEndpointAgain == detPc' = "resolve" /\ detIdx' = detIdx

\* The loop of checkEndpoints moves to the next entry, or the pass is over.
NextEndpoint ==
    IF detIdx < Len(configs)
    THEN detPc' = "resolve" /\ detIdx' = detIdx + 1
    ELSE detPc' = "select" /\ detIdx' = 0

\* Variant: an unset LastIP is not taken for a change.
IPChangedIfSet(config, currentIP) ==
    config.LastIP # NoIP /\ ~IPEqual(config.LastIP, currentIP)

\* Whether the entry's recorded address differs from the one just resolved.
IPChanged(config, currentIP) == ~IPEqual(config.LastIP, currentIP)

\* Variant: LastIP is left as it was when a change is detected.
CheckResultNoUpdate(config, answer) ==
    [LastIP |-> config.LastIP,
     restart |-> ~answer.err /\ IPChanged(config, answer.IP)]

\* Variant: a failed resolution falls through with the resolver's empty answer.
CheckResultNoContinue(config, answer) ==
    IF IPChanged(config, answer.IP)
    THEN [LastIP |-> answer.IP, restart |-> TRUE]
    ELSE [LastIP |-> config.LastIP, restart |-> FALSE]

\* What the body of the loop decides for one entry, given the resolver's
\* answer: the value LastIP has afterwards, and whether the service is restarted.
CheckResult(config, answer) ==
    IF answer.err
    THEN [LastIP |-> config.LastIP, restart |-> FALSE]
    ELSE IF IPChanged(config, answer.IP)
    THEN [LastIP |-> answer.IP, restart |-> TRUE]
    ELSE [LastIP |-> config.LastIP, restart |-> FALSE]

\* Variant: the entry is written to a copy that is appended to the registry.
SetLastIPAppended(registry, i, ip) ==
    IF registry[i].LastIP = ip THEN registry
    ELSE Append(registry, [registry[i] EXCEPT !.LastIP = ip])

\* config.LastIP = currentIP.IP, config being &m.configs[i].
SetLastIP(registry, i, ip) == [registry EXCEPT ![i].LastIP = ip]

\* checkEndpoints for entry i, from the resolution to the update of LastIP.
CheckEndpoint ==
    /\ mainPc = "running"
    /\ detPc = "resolve"
    /\ LET i == detIdx
           config == configs[i]
       IN  \E answer \in ResolveIPAddr(config.Hostname) :
               LET result == CheckResult(config, answer)
               IN  /\ cur' = [cur EXCEPT !.res[i] = IF answer.err THEN "fail" ELSE answer.IP]
                   /\ configs' = SetLastIP(configs, i, result.LastIP)
                   /\ IF result.restart
                      THEN detPc' = "restart" /\ UNCHANGED detIdx
                      ELSE NextEndpoint
    /\ UNCHANGED <<inputVars, startupVars, ctxDone, tickerC, ticksDropped, prev, apiVars, restartLog>>

\* checkEndpoints calls restartWireGuardService, which sends the request.
DetRestart ==
    /\ mainPc = "running"
    /\ detPc = "restart"
    /\ LET i == detIdx
       IN  /\ restartLog' = restartLog \cup {RestartRequest(configs[i].Interface, "detector")}
           /\ \/ /\ detPc' = "wait"
                 /\ cur' = [cur EXCEPT !.cnt[i] = @ + 1]
                 /\ UNCHANGED detIdx
              \/ /\ cur' = [cur EXCEPT !.cnt[i] = @ + 1, !.out[i] = "error"]
                 /\ NextEndpoint
    /\ UNCHANGED <<inputVars, startupVars, configs, ctxDone, tickerC, ticksDropped, prev, apiVars>>

\* The job's terminal state arrives on reschan; the outcome is logged.
DetJobDone ==
    /\ mainPc = "running"
    /\ detPc = "wait"
    /\ \E job \in JobResults :
           cur' = [cur EXCEPT !.out[detIdx] =
                       IF RestartJobResult(job) = NilErr THEN "nil" ELSE "error"]
    /\ NextEndpoint
    /\ UNCHANGED <<inputVars, startupVars, configs, ctxDone, tickerC, ticksDropped, prev, apiVars,
                   restartLog>>

\* run has returned: main returns, its deferred calls run (cancel, cleanup).
MainReturn ==
    /\ mainPc = "running"
    /\ detPc = "returned"
    /\ mainPc' = "exited"
    /\ exitCode' = 0
    /\ ctxDone' = TRUE
    /\ httpServer' = IF httpServer = "nil" THEN "nil" ELSE "closed"
    /\ conn' = "closed"
    /\ UNCHANGED <<inputVars, unitIdx, scanIface, scanIdx, parsed, configs, tickerC, ticksDropped,
                   detPc, detIdx, cur, prev, reqs, lists, restartLog>>

(***************************************************************************)
(* The HTTP API: startHTTPServer, authMiddleware, handleRestart and        *)
(* handleListInterfaces.                                                   *)
(***************************************************************************)
NoResp == [status |-> 0, success |-> FALSE, fmt |-> "", args |-> <<>>]

NoReq == [pc |-> "new", iface |-> <<>>, keyOk |-> FALSE, called |-> FALSE,
          job |-> "none", ret |-> "none", resp |-> NoResp]

NoList == [pc |-> "new", keyOk |-> FALSE, data |-> <<>>, resp |-> NoResp]

\* c.JSON(status, RestartResponse{Success, Message: fmt.Sprintf(format, args)})
Response(status, success, format, args) ==
    [status |-> status, success |-> success, fmt |-> format, args |-> args]

\* The interface names API requests carry; <<>> is a missing or empty field.
ReqIfaces == {wg0, wg1, <<>>}

\* m.apiKey; main enables the API only when the key is not empty.
apiKey == "secret"

\* The values of the X-API-Key header; "" is a request without the header.
HeaderKeys == {"secret", "Secret", ""}

\* Variant: a request without the header passes.
authMiddlewareEmptyPasses(header) ==
    IF header # apiKey /\ header # ""
    THEN Response(401, FALSE, "Invalid API key", <<>>)
    ELSE NoResp

\* authMiddleware of the group /api/v1: the response that aborts the request,
\* or NoResp when c.Next() hands it to the handler.
authMiddleware(header) ==
    IF header # apiKey
    THEN Response(401, FALSE, "Invalid API key", <<>>)
    ELSE NoResp

StartHTTPServer ==
    /\ mainPc = "running"
    /\ apiEnabled
    /\ httpServer = "nil"
    /\ httpServer' = "listening"
    /\ UNCHANGED <<inputVars, startupVars, configs, runVars, reqs, lists, restartLog>>

\* Variant: every interface name passes for a monitored one.
FoundAny(interfaceName) == TRUE

\* The loop of handleRestart over m.configs.
Found(interfaceName) == \E i \in 1..Len(configs) : configs[i].Interface = interfaceName

\* Variant: the check of single-interface mode is missing.
RestartDeniedNoPin(interfaceName) ==
    IF interfaceName = <<>>
    THEN Response(400, FALSE, "Invalid request format", <<>>)
    ELSE IF ~Found(interfaceName)
    THEN Response(404, FALSE, "Interface '%s' not found in monitored interfaces",
                  <<interfaceName>>)
    ELSE NoResp

\* The checks of handleRestart before the restart call: the response that
\* rejects the request, or NoResp when the request goes on to the restart.
RestartDenied(interfaceName) ==
    IF interfaceName = <<>>
    THEN Response(400, FALSE, "Invalid request format", <<>>)
    ELSE IF singleInterface # <<>> /\ interfaceName # singleInterface
    THEN Response(400, FALSE, "Only interface '%s' is monitored", <<singleInterface>>)
    ELSE IF ~Found(interfaceName)
    THEN Response(404, FALSE, "Interface '%s' not found in monitored interfaces",
                  <<interfaceName>>)
    ELSE NoResp

\* The response of handleRestart to the value restartWireGuardService returned.
RestartResponse(interfaceName, err) ==
    IF err # NilErr
    THEN Response(500, FALSE, "Failed to restart interface: %v", <<err>>)
    ELSE Response(200, TRUE, "Interface '%s' restarted successfully", <<interfaceName>>)

\* POST /api/v1/restart: authMiddleware, then handleRestart up to the point
\* where restartWireGuardService waits for the job.
ApiRestart ==
    /\ mainPc = "running"
    /\ httpServer = "listening"
    /\ BagCardinality(reqs) + BagCardinality(lists) < MaxReq
    /\ \E interfaceName \in ReqIfaces, header \in HeaderKeys :
           LET req == [NoReq EXCEPT !.iface = interfaceName, !.keyOk = (header = apiKey)]
               aborted == authMiddleware(header)
               denied == RestartDenied(interfaceName)
           IN  IF aborted # NoResp
               THEN /\ reqs' = reqs (+) SetToBag({[req EXCEPT !.pc = "done",
                                                                !.resp = aborted]})
                    /\ UNCHANGED restartLog
               ELSE IF denied # NoResp
               THEN /\ reqs' = reqs (+) SetToBag({[req EXCEPT !.pc = "done", !.resp = denied]})
                    /\ UNCHANGED restartLog
               ELSE /\ restartLog' = restartLog \cup {RestartRequest(interfaceName, "api")}
                    /\ \/ reqs' = reqs (+) SetToBag({[req EXCEPT !.pc = "wait",
                                                                  !.called = TRUE]})
                       \/ reqs' = reqs (+) SetToBag({[req EXCEPT !.pc = "done",
                                     !.called = TRUE, !.ret = "error",
                                     !.resp = RestartResponse(interfaceName,
                                                  RestartRejected(interfaceName))]})
    /\ UNCHANGED <<inputVars, startupVars, configs, runVars, httpServer, lists>>

\* The job's terminal state arrives on the reschan of a waiting request.
ApiJobDone ==
    /\ mainPc = "running"
    /\ \E req \in BagToSet(reqs), job \in JobResults :
           /\ req.pc = "wait"
           /\ LET err == RestartJobResult(job)
              IN  reqs' = (reqs (-) SetToBag({req})) (+)
                          SetToBag({[req EXCEPT !.pc = "done", !.job = job,
                                         !.ret = IF err = NilErr THEN "nil" ELSE "error",
                                         !.resp = RestartResponse(req.iface, err)]})
    /\ UNCHANGED <<inputVars, startupVars, configs, runVars, httpServer, lists, restartLog>>

\* net.IP.String: "<nil>" for the IP that was never set.
String(ip) == IF ip = NoIP THEN "<nil>" ELSE ip

\* The map handleListInterfaces appends for one entry of m.configs.
ListEntry(config) ==
    [interface |-> config.Interface, endpoint |-> config.Endpoint,
     hostname |-> config.Hostname, last_ip |-> String(config.LastIP)]

\* c.JSON(http.StatusOK, response) of handleListInterfaces.
ListResponse(interfaces) ==
    [status |-> 200, success |-> TRUE, fmt |-> "interfaces",
     args |-> <<singleInterface # <<>>, singleInterface, interfaces, Len(interfaces)>>]

\* The list request after its loop read one more entry: answered when the
\* loop is over.
ListStep(req, interfaces) ==
    IF Len(interfaces) = Len(configs)
    THEN [req EXCEPT !.pc = "done", !.data = interfaces, !.resp = ListResponse(interfaces)]
    ELSE [req EXCEPT !.pc = "loop", !.data = interfaces]

\* GET /api/v1/interfaces: authMiddleware, then handleListInterfaces up to
\* its loop over m.configs.
ApiList ==
    /\ mainPc = "running"
    /\ httpServer = "listening"
    /\ BagCardinality(lists) < MaxList
    /\ BagCardinality(reqs) + BagCardinality(lists) < MaxReq
    /\ \E header \in HeaderKeys :
           LET req == [NoList EXCEPT !.keyOk = (header = apiKey)]
               aborted == authMiddleware(header)
           IN  IF aborted # NoResp
               THEN lists' = lists (+) SetToBag({[req EXCEPT !.pc = "done",
                                                              !.resp = aborted]})
               ELSE lists' = lists (+) SetToBag({ListStep(req, <<>>)})
    /\ UNCHANGED <<inputVars, startupVars, configs, runVars, httpServer, reqs, restartLog>>

\* One iteration of the loop of handleListInterfaces.
ApiListLoop ==
    /\ mainPc = "running"
    /\ \E req \in BagToSet(lists) :
           /\ req.pc = "loop"
           /\ LET config == configs[Len(req.data) + 1]
              IN  lists' = (lists (-) SetToBag({req})) (+)
                           SetToBag({ListStep(req, Append(req.data, ListEntry(config)))})
    /\ UNCHANGED <<inputVars, startupVars, configs, runVars, httpServer, reqs, restartLog>>

(***************************************************************************)
(* Inputs explored and the specifications.                                 *)
(***************************************************************************)
Ifaces == {wg0, wg1, wg2}

\* What systemd lists: two active tunnels, an inactive one, another service.
UnitList ==
    << [Name |-> UnitWg0, ActiveState |-> "active"],
       [Name |-> UnitSshd, ActiveState |-> "active"],
       [Name |-> UnitWg1, ActiveState |-> "active"],
       [Name |-> UnitWg2, ActiveState |-> "inactive"] >>

FileHost == File(<<LinePeer, LineHost>>, NoErr)

FileHost2 == File(<<LineHost2>>, NoErr)

FileTwoHosts == File(<<LineHost, LinePeer, LineHost2>>, NoErr)

FileIPv4 == File(<<LinePeer, LineIPv4>>, NoErr)

\* A hostname endpoint, then a read error of the scanner after that line.
FileTorn == File(<<LineHost, LinePeer>>, 1)

\* The configurations of wg0 and wg1 the monitor is started on.
Scenarios ==
    { <<FileHost, FileIPv4>>, <<FileHost, FileHost2>>, <<FileHost, MissingFile>>,
      <<MissingFile, FileHost2>>, <<FileTwoHosts, FileIPv4>>, <<FileTwoHosts, MissingFile>>,
      <<FileIPv4, FileIPv4>> }

FilesOf(s) == [i \in Ifaces |-> IF i = wg0 THEN s[1] ELSE IF i = wg1 THEN s[2] ELSE FileHost]

InitState ==
    /\ mainPc = "start"
    /\ exitCode = 0
    /\ conn = "nil"
    /\ unitIdx = 0
    /\ scanIface = <<>>
    /\ scanIdx = 0
    /\ parsed = <<>>
    /\ configs = <<>>
    /\ ctxDone = FALSE
    /\ tickerC = 0
    /\ ticksDropped = FALSE
    /\ detPc = "idle"
    /\ detIdx = 0
    /\ cur = NoPass
    /\ prev = NoPrev
    /\ httpServer = "nil"
    /\ reqs = EmptyBag
    /\ lists = EmptyBag
    /\ restartLog = {}

Init ==
    /\ singleInterface \in {<<>>, wg0}
    /\ apiEnabled = FALSE
    /\ units = UnitList
    /\ files \in {FilesOf(s) : s \in Scenarios}
    /\ InitState

Startup ==
    \/ Connect
    \/ ParseSingleInterface
    \/ ListUnits
    \/ DiscoverUnit
    \/ DiscoverDone
    \/ ScanLine
    \/ ScanEnd

Scheduler ==
    \/ Tick
    \/ Signal
    \/ RunTick
    \/ RunDone
    \/ MainReturn

Pass ==
    \/ CheckEndpoint
    \/ DetRestart
    \/ DetJobDone

\* The monitor without its optional API.
Next ==
    \/ Startup
    \/ Scheduler
    \/ Pass

Spec == Init /\ [][Next]_vars

\* What the scheduling gives the goroutine of run: the steps of a pass are
\* taken when they can be (the resolver and systemd answer), the select,
\* which chooses at random among the ready cases, does not pass over
\* ctx.Done() forever, and main returns once run has.
Fairness ==
    /\ WF_vars(Pass)
    /\ SF_vars(RunDone)
    /\ WF_vars(MainReturn)

\* The monitor without its API, with that scheduling.
SpecLive == Spec /\ Fairness

\* The same when the ticker keeps firing: the interval elapses again and
\* again, and the select of run, blocked on its two channels, takes a tick
\* that is buffered when nothing else is ready.
SpecTicks == SpecLive /\ WF_vars(Tick) /\ WF_vars(RunTick)

\* The monitor with the API enabled, on the two-interface scenario.
InitApi ==
    /\ singleInterface \in {<<>>, wg0}
    /\ apiEnabled = TRUE
    /\ units = UnitList
    /\ files = FilesOf(<<FileHost, FileIPv4>>)
    /\ InitState

NextApi ==
    \/ Next
    \/ StartHTTPServer
    \/ ApiRestart
    \/ ApiJobDone
    \/ ApiList
    \/ ApiListLoop

SpecApi == InitApi /\ [][NextApi]_vars

\* The same with the scheduling of run's goroutine, and with systemd
\* reporting the terminal state of the jobs the handlers wait for.
SpecApiLive == SpecApi /\ Fairness /\ WF_vars(ApiJobDone)

\* The monitor with the API serving list requests, on a registry of two
\* entries.
InitList ==
    /\ singleInterface \in {<<>>, wg0}
    /\ apiEnabled = TRUE
    /\ units = UnitList
    /\ files = FilesOf(<<FileTwoHosts, FileIPv4>>)
    /\ InitState

NextList ==
    \/ Next
    \/ StartHTTPServer
    \/ ApiList
    \/ ApiListLoop

SpecList == InitList /\ [][NextList]_vars

\* The unit names and states systemd may report.
UnitNames == {UnitWg0, UnitSshd, UnitEmpty, UnitNoSuffix, UnitNested}

UnitStates == {"active", "inactive", "activating"}

UnitSet == [Name : UnitNames, ActiveState : UnitStates]

\* The interface names those unit names give, each with a configuration.
DiscoverIfaces ==
    Ifaces \cup {UnitInterface([Name |-> u, ActiveState |-> "active"]) : u \in UnitNames}

\* The monitor on every unit list of the bound, without its API.
InitDiscover ==
    /\ singleInterface \in {<<>>, wg0}
    /\ apiEnabled = FALSE
    /\ units \in UNION {[1..n -> UnitSet] : n \in 0..MaxUnits}
    /\ files \in {[i \in DiscoverIfaces |-> IF i = wg0 THEN f ELSE FileHost] :
                     f \in {FileHost, FileTorn, MissingFile}}
    /\ InitState

SpecDiscover == InitDiscover /\ [][Next]_vars

\* The lines configuration texts are made of.
LineSet ==
    {LinePeer, LineHost, LineHost2, LineIPv4, LineQuadPrefix, LineEmptyHost, LineIPv6,
     LineNoPort, LineColons, LineComment}

Texts == UNION {[1..n -> LineSet] : n \in 0..MaxLines}

ConfigTexts ==
    {MissingFile} \cup UNION {{File(t, f) : f \in {NoErr} \cup (0..Len(t))} : t \in Texts}

\* The parser alone, pinned to wg0, on every configuration text of the bound.
InitParser ==
    /\ singleInterface = wg0
    /\ apiEnabled = FALSE
    /\ units = <<>>
    /\ files \in {[i \in Ifaces |-> IF i = wg0 THEN f ELSE MissingFile] : f \in ConfigTexts}
    /\ InitState

NextParser ==
    \/ Connect
    \/ ParseSingleInterface
    \/ ScanLine
    \/ ScanEnd

SpecParser == InitParser /\ [][NextParser]_vars

(***************************************************************************)
(* Properties.  The predicates below are those of the statements checked,  *)
(* written without the operators that model the filter of the parser and   *)
(* the checks of the handlers.                                             *)
(***************************************************************************)
\* The interface has an entry in the registry.
Registered(interfaceName) ==
    \E i \in 1..Len(configs) : configs[i].Interface = interfaceName

\* The host is a literal IPv4 dotted quad: four groups of digits, nothing else.
RECURSIVE QuadExact(_, _)
QuadExact(s, n) ==
    /\ s # <<>>
    /\ IsDigit(Head(s))
    /\ LET r == DropDigits(s)
       IN  IF n = 1 THEN r = <<>>
           ELSE r # <<>> /\ Head(r) = "." /\ QuadExact(Tail(r), n - 1)

IsIPv4Literal(host) == QuadExact(host, 4)

\* The host and port of an `Endpoint = host:port` line (err when the line is
\* no Endpoint line or its value does not split as host:port).
EndpointSplit(text) ==
    LET m == endpointRegex(TrimSpace(text))
    IN  IF Len(m) # 2 THEN SplitErr ELSE SplitHostPort(TrimSpace(m[2]))

IsEndpointLine(text) == ~EndpointSplit(text).err

IPv4Line(text) == IsEndpointLine(text) /\ IsIPv4Literal(EndpointSplit(text).host)

HostLine(text) == IsEndpointLine(text) /\ ~IsIPv4Literal(EndpointSplit(text).host)

\* A pass has run to its end and no other has started since.
PassEnded == cur.started /\ detPc \in {"select", "returned"}

\* In the pass, entry i resolved to an address that its LastIP did not hold.
Drifted(i) == cur.res[i] \in Addrs /\ cur.before[i] # cur.res[i]

\* The restart requests the pass has made for an interface, over all entries.
RECURSIVE SumCnt(_, _)
SumCnt(interfaceName, n) ==
    IF n = 0 THEN 0
    ELSE SumCnt(interfaceName, n - 1)
         + (IF configs[n].Interface = interfaceName THEN cur.cnt[n] ELSE 0)

PassRequestsFor(interfaceName) == SumCnt(interfaceName, Len(configs))

C2_Idempotent ==
    (PassEnded /\ prev.started) =>
        \A i \in 1..Len(configs) :
            (cur.res[i] \in Addrs /\ prev.res[i] = cur.res[i]) =>
                /\ cur.cnt[i] = 0
                /\ cur.out[i] = "none"
                /\ configs[i].LastIP = cur.before[i]

\* Two passes resolved an entry to the same address, and the restart the
\* first pass made for it had failed.
C2_Witness ==
    /\ PassEnded
    /\ prev.started
    /\ \E i \in 1..Len(configs) :
           /\ cur.res[i] \in Addrs
           /\ prev.res[i] = cur.res[i]
           /\ prev.out[i] = "error"

\* C3: an entry whose resolution failed in the pass keeps the LastIP it had
\* when the pass started, and the pass makes no restart request for it.
C3_ResolutionFailure ==
    cur.started =>
        \A i \in 1..Len(configs) :
            cur.res[i] = "fail" => /\ configs[i].LastIP = cur.before[i]
                                   /\ cur.cnt[i] = 0
                                   /\ cur.out[i] = "none"

\* A pass ended in which the resolution of an entry with a set LastIP failed.
C3_Witness ==
    /\ PassEnded
    /\ \E i \in 1..Len(configs) : cur.res[i] = "fail" /\ cur.before[i] \in Addrs

(***************************************************************************)
(* The parser, under SpecParser: one call for wg0 on the text files[wg0].  *)
(***************************************************************************)
\* The call of parseWireGuardConfig has returned.
ParseOver == parsed # <<>>

\* The text was read to its end without error.
ParseOk == ParseOver /\ parsed[1].err = "none"

Lines == files[wg0].lines

\* Every Endpoint line of the text has a non-empty host.
HostsNonEmpty ==
    \A k \in 1..Len(Lines) : IsEndpointLine(Lines[k]) => EndpointSplit(Lines[k]).host # <<>>

\* C4 as stated, on the texts whose Endpoint lines all have a non-empty host:
\* a text with an Endpoint line whose host is a literal IPv4 address gives
\* the interface no entry.
C4_NoEntryForInterface ==
    (ParseOk /\ HostsNonEmpty /\ \E k \in 1..Len(Lines) : IPv4Line(Lines[k]))
        => ~Registered(wg0)

\* The number of lines among the first n that are Endpoint lines with a host
\* that is no literal IPv4 address.
RECURSIVE CountHostLines(_)
CountHostLines(n) ==
    IF n = 0 THEN 0 ELSE CountHostLines(n - 1) + (IF HostLine(Lines[n]) THEN 1 ELSE 0)

\* C4 amended: an Endpoint line whose host is a literal IPv4 address adds no
\* entry: no registry entry has such a hostname and the registry has at most
\* one entry for each other Endpoint line read, so that a text whose Endpoint
\* lines all have such hosts gives the interface no entry.  The other
\* Endpoint lines of the text can still add theirs.
C4_NoEntryForLine ==
    /\ \A i \in 1..Len(configs) : ~IsIPv4Literal(configs[i].Hostname)
    /\ Len(configs) <= CountHostLines(scanIdx)

\* A text with an IPv4 Endpoint line and a hostname Endpoint line was read,
\* and the interface has the entry of the hostname line.
C4_Witness ==
    /\ ParseOk
    /\ \E k \in 1..Len(Lines) : IPv4Line(Lines[k])
    /\ Len(configs) = 1
    /\ configs[1].Hostname = HostVpn

\* C5: a text with exactly one `Endpoint = host:port` line, whose host is no
\* literal IPv4 address, gives exactly one entry, with that host as hostname.
C5_OneEntryForHost ==
    ParseOk =>
        \A k \in 1..Len(Lines) :
            (/\ HostLine(Lines[k])
             /\ \A j \in 1..Len(Lines) : IsEndpointLine(Lines[j]) => j = k)
            => /\ Len(configs) = 1
               /\ configs[1].Hostname = EndpointSplit(Lines[k]).host

RECURSIVE EntriesOf(_)
EntriesOf(n) ==
    IF n = 0 THEN <<>>
    ELSE EntriesOf(n - 1) \o
         [j \in 1..Len(EndpointOf(Lines[n])) |->
            [Interface |-> wg0,
             Endpoint  |-> EndpointOf(Lines[n])[j].Endpoint,
             Hostname  |-> EndpointOf(Lines[n])[j].Hostname]]

ValidConfig(f) ==
    /\ f.exists
    /\ f.failAfter = NoErr
    /\ \E k \in 1..Len(f.lines) :
           HostLine(f.lines[k]) /\ EndpointSplit(f.lines[k]).host # <<>>

\* parseWireGuardConfig returned an error for some interface.
ParseFailed == \E j \in 1..Len(parsed) : parsed[j].err # "none"

\* C7: in auto-discovery, once the parser has failed for an interface the
\* process does not exit with an error, and when discovery is over the
\* monitor runs with an entry for every active unit's interface that has a
\* readable configuration with a hostname endpoint.
C7_Isolation ==
    (singleInterface = <<>> /\ ParseFailed) =>
        /\ ~(mainPc = "exited" /\ exitCode # 0)
        /\ mainPc \in {"running", "exited"} =>
               /\ detPc # "idle"
               /\ \A k \in 1..Len(units) :
                      (/\ HasPrefix(units[k].Name, ServicePrefix)
                       /\ HasSuffix(units[k].Name, ServiceSuffix)
                       /\ units[k].ActiveState = "active"
                       /\ ValidConfig(files[UnitInterface(units[k])]))
                      => Registered(UnitInterface(units[k]))

\* The configuration of wg0 could not be opened, and the monitor runs with
\* wg1, discovered after it, in the registry.
C7_Witness ==
    /\ singleInterface = <<>>
    /\ mainPc = "running"
    /\ \E j \in 1..Len(parsed) : parsed[j] = [iface |-> wg0, err |-> "open"]
    /\ Registered(wg1)
    /\ ~Registered(wg0)

\* The configuration has Endpoint lines, all with a literal IPv4 host.
OnlyLiteralIP(f) ==
    /\ f.exists
    /\ \E k \in 1..Len(f.lines) : IsEndpointLine(f.lines[k])
    /\ \A k \in 1..Len(f.lines) : IsEndpointLine(f.lines[k]) => IPv4Line(f.lines[k])

\* C8: every restart request of a pass names the unit of a registry entry's
\* interface; an interface whose endpoints are all literal IPs has no entry
\* and no pass ever requests its restart.
C8_OnlyRegistered ==
    /\ \A q \in restartLog :
           q.by = "detector" =>
               \E i \in 1..Len(configs) : q.unit = ServiceName(configs[i].Interface)
    /\ \A n \in Ifaces :
           OnlyLiteralIP(files[n]) =>
               /\ ~Registered(n)
               /\ [unit |-> ServicePrefix \o n \o ServiceSuffix, by |-> "detector"]
                      \notin restartLog

\* wg0 has a hostname endpoint and wg1 a literal IP; both units are active,
\* and a pass that found wg0's address changed has restarted wg0.
C8_Witness ==
    /\ singleInterface = <<>>
    /\ OnlyLiteralIP(files[wg1])
    /\ PassEnded
    /\ Len(configs) = 1
    /\ configs[1].Interface = wg0
    /\ Drifted(1)
    /\ cur.before[1] \in Addrs
    /\ [unit |-> UnitWg0, by |-> "detector"] \in restartLog

(***************************************************************************)
(* The restart handler of the API, under SpecApi.                          *)
(***************************************************************************)
\* C9: in single-interface mode, a well-formed authenticated restart request
\* that names another interface than the pinned one is answered 400 with
\* the message "Only interface '<pinned>' is monitored", and no restart
\* request is made for it.
C9_PinnedRejects ==
    singleInterface # <<>> =>
        \A q \in BagToSet(reqs) :
            (q.keyOk /\ q.iface # <<>> /\ q.iface # singleInterface) =>
                /\ q.pc = "done"
                /\ q.resp = [status |-> 400, success |-> FALSE,
                             fmt |-> "Only interface '%s' is monitored",
                             args |-> <<singleInterface>>]
                /\ ~q.called
                /\ [unit |-> ServicePrefix \o q.iface \o ServiceSuffix, by |-> "api"]
                       \notin restartLog

\* Pinned to wg0, a request for wg1 has been answered.
C9_Witness ==
    /\ singleInterface = wg0
    /\ \E q \in BagToSet(reqs) : q.keyOk /\ q.iface = wg1 /\ q.pc = "done"

\* C10: a restart request of the API is made only for an interface that has
\* a registry entry; an authenticated request for any other interface is
\* answered with a failure and without a restart request; and a response
\* reports success exactly when the restart call returned nil.
C10_ValidatedRestart ==
    /\ \A q \in restartLog :
           q.by = "api" =>
               \E i \in 1..Len(configs) :
                   q.unit = ServicePrefix \o configs[i].Interface \o ServiceSuffix
    /\ \A q \in BagToSet(reqs) :
           /\ q.called => Registered(q.iface)
           /\ ~Registered(q.iface) =>
                  q.pc = "done" /\ ~q.resp.success /\ q.resp.status \in {400, 401, 404}
           /\ q.pc = "done" => (q.resp.success <=> q.ret = "nil")
           /\ q.pc = "done" => (q.resp.success <=> q.resp.status = 200)

\* One request was answered with success after its restart, and another, for
\* an interface without entry, was refused.
C10_Witness ==
    /\ \E q \in BagToSet(reqs) : q.pc = "done" /\ q.called /\ q.resp.success
    /\ \E q \in BagToSet(reqs) : q.keyOk /\ q.iface = wg1 /\ q.resp.status = 404

\* C11: a request to /api/v1 whose X-API-Key header is not the configured key
\* is answered 401 "Invalid API key" by the middleware and never reaches its
\* handler: a restart request makes no restart call, a list request reads no
\* registry entry and its response carries no registry data.
C11_RejectedBeforeHandler ==
    /\ \A q \in BagToSet(reqs) :
           ~q.keyOk =>
               /\ q.pc = "done"
               /\ q.resp = [status |-> 401, success |-> FALSE,
                            fmt |-> "Invalid API key", args |-> <<>>]
               /\ ~q.called
               /\ q.job = "none"
    /\ \A q \in BagToSet(lists) :
           ~q.keyOk =>
               /\ q.pc = "done"
               /\ q.resp = [status |-> 401, success |-> FALSE,
                            fmt |-> "Invalid API key", args |-> <<>>]
               /\ q.data = <<>>

\* With wg0 registered, a restart request for wg0 and a list request, both
\* with a wrong key, have been answered.
C11_Witness ==
    /\ Registered(wg0)
    /\ \E q \in BagToSet(reqs) : ~q.keyOk /\ q.iface = wg0 /\ q.pc = "done"
    /\ \E q \in BagToSet(lists) : ~q.keyOk /\ q.pc = "done"

\* C12: a call of restartWireGuardService returns nil exactly when systemd
\* accepted the request and the job reported "done"; for any other reported
\* state it returns the error "service restart job failed: <state>" with the
\* state as reported; when systemd rejects the request it returns the error
\* "failed to restart service ..." at once, no job state having been received.
\* (Observed on the calls handleRestart makes: job is the state received,
\* "none" when none was, and the response carries the error returned.)
C12_RestartOutcome ==
    \A q \in BagToSet(reqs) :
        q.called =>
            /\ q.pc = "wait" => q.job = "none" /\ q.ret = "none"
            /\ q.pc = "done" =>
                   /\ q.ret = "nil" <=> q.job = "done"
                   /\ q.ret \in {"nil", "error"}
                   /\ q.job \notin {"none", "done"} =>
                          /\ q.resp.status = 500
                          /\ q.resp.args = << [fmt |-> "service restart job failed: %s",
                                               args |-> <<q.job>>] >>
                   /\ q.job = "none" =>
                          /\ q.resp.status = 500
                          /\ q.resp.args[1].fmt = "failed to restart service %s: %w"

\* One call returned nil after "done", another an error after "canceled".
C12_Witness ==
    /\ \E q \in BagToSet(reqs) : q.called /\ q.pc = "done" /\ q.job = "done"
    /\ \E q \in BagToSet(reqs) : q.called /\ q.pc = "done" /\ q.job = "canceled"

HostLinesIn(lines) == Cardinality({k \in 1..Len(lines) : HostLine(lines[k])})

C14_HostnameNonEmpty ==
    \A i \in 1..Len(configs) :
        configs[i].Hostname # <<>> /\ ~IsIPv4Literal(configs[i].Hostname)

(***************************************************************************)
(* The scheduler.                                                          *)
(***************************************************************************)
\* run takes a tick from ticker.C, which is what starts a pass.
PassStarts == tickerC' < tickerC

\* A pass is executing: checkEndpoints has not returned to the select.
PassRunning == detPc \in {"resolve", "restart", "wait"}

\* C15: a pass starts only while no pass is executing, and however many
\* ticks fired while the pass before was executing, no tick is left buffered
\* once the next pass has started: a further pass waits for a new tick.
C15_NoOverlapNoBacklog ==
    [][PassStarts => ~PassRunning /\ tickerC' = 0]_vars

\* A pass is over that outlasted two ticks or more: the second was dropped,
\* and one tick is buffered for the next pass.
C15_Witness ==
    /\ cur.started
    /\ detPc = "select"
    /\ ticksDropped
    /\ tickerC = 1

\* C16: once the context is cancelled, no pass starts, a tick buffered in
\* ticker.C notwithstanding.
C16_NoPassAfterCancel ==
    [][ctxDone => ~PassStarts]_vars

\* C17: once the context is cancelled, run returns, from its select and so
\* after the pass in progress has ended, and the process then exits with
\* status 0, the connection to systemd closed.
C17_ShutdownCompletes ==
    /\ ctxDone ~> (detPc = "returned")
    /\ ctxDone ~> (mainPc = "exited" /\ exitCode = 0 /\ conn = "closed")
    /\ [][(detPc' = "returned" /\ detPc # "returned") => ~PassRunning /\ ctxDone]_vars

\* The process has exited on a cancellation, after a pass in which a restart
\* was awaited.
C17_Witness ==
    /\ mainPc = "exited"
    /\ exitCode = 0
    /\ conn = "closed"
    /\ detPc = "returned"
    /\ cur.started
    /\ \E i \in 1..Len(configs) : cur.out[i] \in {"nil", "error"}

\* A call of restartWireGuardService by a handler is waiting on its reschan.
HandlerWaits == \E q \in BagToSet(reqs) : q.pc = "wait"

C19_ReleasedOnExit ==
    mainPc = "exited" => conn # "open" /\ httpServer # "listening"

\* The process has exited from startup with status 1.
StartupAborted == mainPc = "exited" /\ exitCode = 1

C21_WrittenBeforeRestart ==
    cur.started =>
        \A i \in 1..Len(configs) :
            (cur.cnt[i] >= 1 \/ (detIdx = i /\ detPc \in {"restart", "wait"})) =>
                /\ cur.res[i] \in Addrs
                /\ cur.res[i] # cur.before[i]
                /\ configs[i].LastIP = cur.res[i]

\* The restart for an entry that moved from one address to another is
\* outstanding, and the entry holds the new address.
C21_Witness ==
    /\ detPc = "wait"
    /\ cur.before[detIdx] \in Addrs
    /\ cur.res[detIdx] \in Addrs
    /\ cur.before[detIdx] # cur.res[detIdx]
    /\ configs[detIdx].LastIP = cur.res[detIdx]
    /\ [unit |-> ServicePrefix \o configs[detIdx].Interface \o ServiceSuffix,
        by |-> "detector"] \in restartLog

\* C22: a pass takes the entries in the order of the registry, resolving
\* each once: while it runs, the entries before the one at hand are
\* resolved and those after it are not yet; a resolution recorded is not
\* made again in the pass; when the pass ends every entry has been
\* resolved, whatever resolutions or restarts failed; and the pass ends at
\* the select of run, which run leaves only on cancellation.
C22_EveryEntryOnce ==
    /\ [](PassRunning =>
             /\ mainPc = "running"
             /\ detIdx \in 1..Len(configs)
             /\ \A i \in 1..Len(configs) :
                    /\ i < detIdx => cur.res[i] # "pending"
                    /\ i > detIdx => cur.res[i] = "pending"
                    /\ i = detIdx => (cur.res[i] = "pending" <=> detPc = "resolve"))
    /\ [](PassEnded => \A i \in 1..Len(configs) : cur.res[i] # "pending")
    /\ [](detPc = "returned" => ctxDone)
    /\ [][(cur.started /\ ~PassStarts) =>
             \A i \in 1..Len(configs) :
                 cur.res[i] # "pending" => cur'.res[i] = cur.res[i]]_vars

\* Two passes over two entries have ended: in the first the resolution of
\* the first entry failed, in the second its restart failed, and both
\* resolved the second entry.
C22_Witness ==
    /\ PassEnded
    /\ Len(configs) = 2
    /\ prev.started
    /\ prev.res[1] = "fail"
    /\ prev.res[2] \in Addrs
    /\ cur.out[1] = "error"
    /\ cur.res[2] \in Addrs

\* Startup is over: run has been entered, or the process has exited.
StartupOver == mainPc \in {"running", "exited"}

\* The entries of the registry without their LastIP.
Keys(registry) ==
    [i \in 1..Len(registry) |->
        [Interface |-> registry[i].Interface,
         Endpoint  |-> registry[i].Endpoint,
         Hostname  |-> registry[i].Hostname]]

\* C23: once startup is over, no step adds, removes or reorders entries or
\* changes an entry's Interface, Endpoint or Hostname; a step that changes
\* a LastIP is the pass at the entry it is resolving and changes that entry
\* only; and a step of a restart or list request changes nothing of the
\* registry.
C23_PassSoleWriter ==
    [][StartupOver =>
          /\ Keys(configs') = Keys(configs)
          /\ configs' # configs =>
                 /\ detPc = "resolve"
                 /\ reqs' = reqs /\ lists' = lists
                 /\ \A i \in 1..Len(configs) : i # detIdx => configs'[i] = configs[i]
          /\ (reqs' # reqs \/ lists' # lists) => configs' = configs]_vars

\* A restart request and a list request have been answered and a pass has
\* written a new address.
C23_Witness ==
    /\ \E q \in BagToSet(reqs) : q.pc = "done" /\ q.called
    /\ \E q \in BagToSet(lists) : q.pc = "done" /\ q.resp.status = 200
    /\ cur.started
    /\ \E i \in 1..Len(configs) :
           cur.res[i] \in Addrs /\ cur.before[i] \in Addrs /\ cur.before[i] # cur.res[i]

\* The restart calls outstanding for an interface: those of the handlers
\* waiting for its job, and that of the pass when it waits for it.
RECURSIVE WaitingIn(_, _)
WaitingIn(interfaceName, qs) ==
    IF qs = {} THEN 0
    ELSE LET q == CHOOSE x \in qs : TRUE
         IN  (IF q.pc = "wait" /\ q.iface = interfaceName THEN CopiesIn(q, reqs) ELSE 0)
             + WaitingIn(interfaceName, qs \ {q})

Outstanding(interfaceName) ==
    WaitingIn(interfaceName, BagToSet(reqs))
    + (IF detPc = "wait" /\ configs[detIdx].Interface = interfaceName THEN 1 ELSE 0)

\* C24: at no time are two restart calls outstanding for one interface.
C24_Serialized == \A n \in Ifaces : Outstanding(n) <= 1

\* The LastIP values a list response reports, entry by entry.
Reported(q) == [i \in 1..Len(q.data) |-> q.data[i].last_ip]

\* What the registry held, as a list would report it, when the pass in
\* progress had written the entries up to k and not yet those after k.
RegistryAt(k) ==
    [i \in 1..Len(configs) |->
        IF i <= k THEN String(configs[i].LastIP) ELSE String(cur.before[i])]

\* C25, for the requests answered before the second pass starts: the values
\* of a list response are those the registry held at one instant, that is
\* before the first pass or when that pass had written some number of
\* entries.
C25_ListIsSnapshot ==
    ~prev.started =>
        \A q \in BagToSet(lists) :
            (q.pc = "done" /\ q.resp.status = 200) =>
                IF cur.started
                THEN \E k \in 0..Len(configs) : Reported(q) = RegistryAt(k)
                ELSE Reported(q) = [i \in 1..Len(configs) |-> String(configs[i].LastIP)]

\* C26: while the context is not cancelled, the monitor with a registry
\* comes again and again to the start of a pass, and every pass runs to its
\* end (resolving every entry, C22); a resolution that gives an address
\* other than the entry's LastIP, unset included, writes that address and
\* goes on to the restart, whose request is then sent.  So a hostname
\* that from some point on resolves to an address B other than LastIP gets
\* LastIP = B and a restart request in the first pass after that point.
C26_NoMissedChange ==
    /\ (mainPc = "running" /\ configs # <<>>)
           ~> (ctxDone \/ (detPc = "resolve" /\ detIdx = 1))
    /\ PassRunning ~> PassEnded
    /\ (detPc = "restart") ~> (detPc # "restart")
    /\ [][(/\ detPc = "resolve"
           /\ cur'.res[detIdx] \in Addrs
           /\ cur'.res[detIdx] # configs[detIdx].LastIP)
          => /\ configs'[detIdx].LastIP = cur'.res[detIdx]
             /\ detPc' = "restart"
             /\ detIdx' = detIdx]_vars
    /\ [][(detPc = "restart" /\ detPc' # "restart")
          => /\ [unit |-> ServicePrefix \o configs[detIdx].Interface \o ServiceSuffix,
                  by |-> "detector"] \in restartLog'
             /\ cur'.cnt[detIdx] = 1]_vars

\* After a pass in which the resolution of an entry failed, a pass found the
\* entry's hostname at another address than its LastIP: the address is
\* written and the restart was requested.
C26_Witness ==
    /\ PassEnded
    /\ prev.started
    /\ \E i \in 1..Len(configs) :
           /\ prev.res[i] = "fail"
           /\ cur.before[i] \in Addrs
           /\ cur.res[i] \in Addrs
           /\ cur.res[i] # cur.before[i]
           /\ configs[i].LastIP = cur.res[i]
           /\ cur.cnt[i] = 1

(***************************************************************************)
(* Discovery, under SpecDiscover: every unit list of the bound.            *)
(***************************************************************************)
\* The unit name has the form wg-quick@<interface>.service.
MatchesConvention(name) ==
    /\ Len(name) >= Len(ServicePrefix) + Len(ServiceSuffix)
    /\ SubSeq(name, 1, Len(ServicePrefix)) = ServicePrefix
    /\ SubSeq(name, Len(name) - Len(ServiceSuffix) + 1, Len(name)) = ServiceSuffix

\* The part of such a name between the prefix and the suffix.
Instance(name) == SubSeq(name, Len(ServicePrefix) + 1, Len(name) - Len(ServiceSuffix))

\* C27: for a unit name of the form wg-quick@<interface>.service the
\* service name built from the interface name recovered from it is the unit
\* name; for an interface name, the interface recovered from the service
\* name built from it is that interface name; and in auto-discovery every
\* entry's interface is the one of an active unit of that form, whose name
\* is the one every restart request of a pass carries.
C27_InverseTransform ==
    /\ \A k \in 1..Len(units) :
           MatchesConvention(units[k].Name) =>
               ServiceName(UnitInterface(units[k])) = units[k].Name
    /\ \A i \in DOMAIN files \cup {singleInterface} :
           /\ UnitInterface([Name |-> ServiceName(i), ActiveState |-> "active"]) = i
           /\ MatchesConvention(ServiceName(i))
    /\ singleInterface = <<>> =>
           /\ \A i \in 1..Len(configs) :
                  \E k \in 1..Len(units) :
                      /\ MatchesConvention(units[k].Name)
                      /\ units[k].ActiveState = "active"
                      /\ configs[i].Interface = Instance(units[k].Name)
           /\ \A q \in restartLog :
                  \E k \in 1..Len(units), i \in 1..Len(configs) :
                      /\ q.unit = units[k].Name
                      /\ units[k].ActiveState = "active"
                      /\ configs[i].Interface = Instance(units[k].Name)

\* The unit wg-quick@wg-quick@wg0.service.service was discovered, its
\* interface is wg-quick@wg0.service, and a pass has requested the restart
\* of that unit.
C27_Witness ==
    /\ singleInterface = <<>>
    /\ Len(configs) = 1
    /\ configs[1].Interface = ServicePrefix \o wg0 \o ServiceSuffix
    /\ [unit |-> UnitNested, by |-> "detector"] \in restartLog

\* The units the discovery loop has dealt with.
UnitsDone == IF unitIdx = 0 THEN 0 ELSE unitIdx - 1

\* The interfaces of the active units of the naming convention among the
\* first n units, in the order of the list.
RECURSIVE ActiveInterfaces(_)
ActiveInterfaces(n) ==
    IF n = 0 THEN <<>>
    ELSE LET unit == units[n]
         IN  IF MatchesConvention(unit.Name) /\ unit.ActiveState = "active"
             THEN Append(ActiveInterfaces(n - 1), Instance(unit.Name))
             ELSE ActiveInterfaces(n - 1)

\* The interfaces of the parser calls that returned, in order.
ParsedInterfaces == [j \in 1..Len(parsed) |-> parsed[j].iface]

\* C28: in auto-discovery the parser calls that returned are, in order,
\* those of the active units named wg-quick@<interface>.service among the
\* units dealt with, a call under way is for such a unit, and every entry
\* has the interface of such a unit; in pinned mode the unit list is never
\* walked and the only interface parsed, and the only one with entries, is
\* the pinned one.
C28_ParsedExactlyActive ==
    IF singleInterface = <<>>
    THEN /\ unitIdx <= Len(units) + 1
         /\ ParsedInterfaces = ActiveInterfaces(UnitsDone)
         /\ mainPc = "scan" =>
                /\ unitIdx \in 1..Len(units)
                /\ MatchesConvention(units[unitIdx].Name)
                /\ units[unitIdx].ActiveState = "active"
                /\ scanIface = Instance(units[unitIdx].Name)
         /\ \A i \in 1..Len(configs) :
                \E k \in 1..Len(units) :
                    /\ k <= unitIdx
                    /\ ActiveInterfaces(k) # ActiveInterfaces(k - 1)
                    /\ configs[i].Interface = UnitInterface(units[k])
    ELSE /\ unitIdx = 0
         /\ mainPc # "discover"
         /\ Len(parsed) <= 1
         /\ \A j \in 1..Len(parsed) : parsed[j].iface = singleInterface
         /\ mainPc = "scan" => scanIface = singleInterface
         /\ \A i \in 1..Len(configs) : configs[i].Interface = singleInterface

\* Discovery is over: the one unit, active and of the convention, was
\* parsed and has an entry.
C28_Witness ==
    /\ singleInterface = <<>>
    /\ UnitsDone = Len(units)
    /\ \E k \in 1..Len(units) : units[k] = [Name |-> UnitWg0, ActiveState |-> "active"]
    /\ parsed = << [iface |-> wg0, err |-> "none"] >>
    /\ configs # <<>>

\* C29: an interface for which parseWireGuardConfig returned an error has
\* no registry entry, and no pass requests the restart of its unit.
C29_NoEntryOnParseError ==
    \A j \in 1..Len(parsed) :
        parsed[j].err # "none" =>
            /\ ~Registered(parsed[j].iface)
            /\ [unit |-> ServiceName(parsed[j].iface), by |-> "detector"] \notin restartLog

====
